---- MODULE Spec2Model ----
(***************************************************************************)
(* OptiSigns help-center sync job (main.py) with its FileTracker ledger,   *)
(* the OpenAI file store and the vector store it drives.                   *)
(*                                                                         *)
(* One process at a time: main() constructs OptiSignsSyncJob, calls run()  *)
(* once and exits.  The local articles directory, the tracking file and    *)
(* the remote stores survive the process; everything else is in memory.    *)
(*                                                                         *)
(* Spec is the sync job.  ToolSpec is the managers and the FileTracker     *)
(* called on their own, as cleanup.py and the replace_file methods do.     *)
(* DotSpec is the sync job configured with OUTPUT_DIRECTORY=./articles.    *)
(* HashSpec is save_article_locally and the fingerprints on either kind of *)
(* host.  ListLive is list_all_files against a store that answers.         *)
(* CleanupSpec is cleanup_all with its pool of worker threads.             *)
(***************************************************************************)
EXTENDS Integers, FiniteSets, Sequences, TLC

\* ------------------------------------------------------------------ bounds
MaxContent == 2
MaxRuns == 2
MaxRemoteId == 4
MaxFaults == 1
MaxCalls == 2
PageLimit == 1
MaxWorkers == 2

\* the articles of the help center
Ids == {"A", "B"}
Contents == 1..MaxContent

\* ------------------------------------------------------- values and helpers
\* Python None; every optional value of the model is a sequence, None the empty one
None == <<>>

\* {} of Python: the dict with no key
EmptyDict == [k \in {} |-> None]

\* d[k] = v on a dict
DictSet(d, k, v) == [x \in (DOMAIN d) \cup {k} |-> IF x = k THEN v ELSE d[x]]

\* line endings: a Python str separates its lines with LF; a file may hold CRLF
LF == "LF"
CRLF == "CRLF"

\* content.encode('utf-8'): the byte string <<encoding, text, line ending>> of a
\* content string, whose lines end as they do in the string
Utf8Encode(content) == <<"utf8", content, LF>>

\* hashlib.sha256(bytes).hexdigest(): a digest string, injective on the domain
Sha256Hex(bytes) == <<(bytes[2] * 7 + 3 + (IF bytes[3] = LF THEN 0 ELSE 5)) % 11>>

\* Path(p).stem
Stem(path) == path[2]

\* f"{article_id}.txt", the name convert_md_to_txt gives the uploaded file
TxtName(path) == <<Stem(path), "txt">>

\* filename.replace('.txt', '')
ArticleIdOfFilename(filename) == filename[1]

\* ------------------------------------------------------------------- state
VARIABLES
    pc,             \* position of the process: "none" when no process runs
    runs,           \* number of processes started so far
    articlesDir,    \* articles directory: path -> bytes of the .md file
    disk,           \* upload_tracking.json: [state, data]
    file_tracking,  \* FileTracker.file_tracking, the in-memory ledger
    files,          \* OpenAI file store: set of [id, filename, bytes]
    vstore,         \* vector store: set of [id, file_id]
    nextId,         \* next id the remote hands out
    scraped,        \* scraped_articles: id -> content
    local_articles, \* get_local_articles(): id -> [path, hash]
    changes,        \* identify_changes(): [new, updated, unchanged, deleted]
    existing,       \* check_existing_files()['vector_store']; the 'openai' set
                    \* is built and never read
    results,        \* upload_delta(): [uploaded, skipped, failed]
    item,           \* per article: stage of its upload_article call
    fileId,         \* per article: openai_file_id of the call in progress
    vectorId,       \* per article: vector_file_id of the call in progress
    writing,        \* articles whose ledger mutation is in progress
    tracked0,       \* keys the ledger held when the process was constructed
    allOk,          \* history: no remote or ledger call of this run has failed
    prev,           \* history: the last completed run [done, scraped, failed]
    okUploads,      \* history: ids returned by successful uploads
    okAdds,         \* history: <<vector id, file id>> of successful adds
    faults,         \* history: failed requests, kills and outside removals so far
    op,             \* a call on a manager or a FileTracker made outside the sync job
    ret,            \* what the last such call handed back to its caller
    seen,           \* what a second process loading the tracking file got
    toolTracker,    \* the FileTracker of the process making those calls
    calls,          \* number of calls that process has made
    articles_dir,   \* OUTPUT_DIRECTORY as configured, a sequence of path components
    linesep,        \* os.linesep of the host
    pool            \* cleanup.py: the ThreadPoolExecutor, its tasks and the counters

vars == <<pc, runs, articlesDir, disk, file_tracking, files, vstore, nextId,
          scraped, local_articles, changes, existing, results, item, fileId,
          vectorId, writing, tracked0, allOk, prev, okUploads, okAdds, faults,
          op, ret, seen, toolTracker, calls, articles_dir, linesep, pool>>

\* what the host fixes for a process, and the worker pool of cleanup.py: neither the
\* sync job nor a single manager call changes them
hostVars == <<articles_dir, linesep, pool>>

\* the state of the calls made outside the sync job, which the job never touches
toolVars == <<op, ret, seen, toolTracker, calls, hostVars>>

\* os.path.join(articles_dir, f"{id}.md"): the directory string as configured
LocalPath(article_id) == <<articles_dir, article_id, "md">>

\* pathlib.Path(p): the "." components of a path are dropped
PurePath(parts) == SelectSeq(parts, LAMBDA c : c # ".")

\* the file a path string names, which is how glob() spells it
Resolve(path) == <<PurePath(path[1]), path[2], path[3]>>

remoteVars == <<files, vstore, nextId, okUploads, okAdds>>
runVars == <<scraped, local_articles, changes, existing, results, item,
             fileId, vectorId, writing, tracked0>>

NoChanges == [new |-> {}, updated |-> {}, unchanged |-> {}, deleted |-> {}]
NoResults == [uploaded |-> {}, skipped |-> {}, failed |-> {}]
NoPrev == [done |-> FALSE, scraped |-> EmptyDict, failed |-> {}]

\* no call in progress outside the sync job, none returned yet
NoOp == [name |-> "none"]
NoRet == [name |-> "none"]
NoSeen == [during |-> "none", file |-> "none"]
NoTracker == [over |-> "none", type |-> "dict"]

\* a request fails, the process is killed, or somebody else touches the remote
Fault == faults < MaxFaults /\ faults' = faults + 1
NoFault == faults' = faults

\* the in-memory state of a process that does not exist
ResetRun ==
    /\ scraped' = EmptyDict
    /\ local_articles' = EmptyDict
    /\ changes' = NoChanges
    /\ existing' = {}
    /\ results' = NoResults
    /\ item' = [i \in Ids |-> "none"]
    /\ fileId' = [i \in Ids |-> None]
    /\ vectorId' = [i \in Ids |-> None]
    /\ writing' = {}
    /\ tracked0' = {}

\* ------------------------------------------------------------- FileTracker
\* json.dump of one value: None becomes null, a string a JSON string
JsonValue(v) == IF v = None THEN <<"null">> ELSE <<"string", v>>

\* json.load of one value that reads null as the string "null"
FromJsonValueText(j) == IF j = <<"null">> THEN <<"null">> ELSE j[2]

\* json.load of one value
FromJsonValue(j) == IF j = <<"null">> THEN None ELSE j[2]

LedgerFields == {"file_id", "vector_store_file_id", "hash", "uploaded_at", "file_path"}

\* json.dump(self.file_tracking, f, indent=2): the document written to the file
JsonDump(tracking) ==
    [k \in DOMAIN tracking |-> [f \in LedgerFields |-> JsonValue(tracking[k][f])]]

\* json.load(f) of a well-formed document
JsonLoad(doc) ==
    [k \in DOMAIN doc |-> [f \in LedgerFields |-> FromJsonValue(doc[k][f])]]

\* the tracking file: absent, truncated by open(..., 'w') or cut short, or whole
MissingFile == [state |-> "missing", data |-> EmptyDict]
TruncatedFile == [state |-> "corrupt", data |-> EmptyDict]
WholeFile(tracking) == [state |-> "ok", data |-> JsonDump(tracking)]

\* a tracking file holding the JSON document []: well-formed, not a mapping
EmptyList == <<>>
ArrayFile == [state |-> "array", data |-> EmptyList]

\* FileTracker.load_file_tracking: what json.load decodes, {} when the file is absent
\* or does not decode
load_file_tracking(d) ==
    CASE d.state = "ok" -> JsonLoad(d.data)
      [] d.state = "array" -> d.data
      [] OTHER -> EmptyDict

\* type(self.file_tracking) after load_file_tracking: the model writes [] and {} alike
LoadedType(d) == IF d.state = "array" THEN "list" ELSE "dict"

\* FileTracker.get_file_hash: digest of the bytes of the file at file_path
get_file_hash(file_path) == Sha256Hex(articlesDir[Resolve(file_path)])

\* FileTracker.get_file_hash_from_content
get_file_hash_from_content(content) == Sha256Hex(Utf8Encode(content))

\* FileTracker.get_tracking_info: dict.get
get_tracking_info(tracking, file_key) ==
    IF file_key \in DOMAIN tracking THEN tracking[file_key] ELSE None

\* update_tracking that starts a new dict instead of setting one key
update_tracking_fresh(tracking, file_key, file_id, vector_store_file_id, file_hash, file_path) ==
    [k \in {file_key} |->
        [file_id |-> file_id,
         vector_store_file_id |-> vector_store_file_id,
         hash |-> file_hash,
         uploaded_at |-> <<"run", runs>>,
         file_path |-> file_path]]

\* FileTracker.update_tracking, the in-memory part (the save follows it)
update_tracking(tracking, file_key, file_id, vector_store_file_id, file_hash, file_path) ==
    LET h == IF file_hash = None /\ file_path # None
             THEN get_file_hash(file_path) ELSE file_hash
    IN DictSet(tracking, file_key,
               [file_id |-> file_id,
                vector_store_file_id |-> vector_store_file_id,
                hash |-> h,
                uploaded_at |-> <<"run", runs>>,
                file_path |-> file_path])

\* ------------------------------------------------------------ remote stores
FileIdOf(n) == <<"file", n>>
VectorIdOf(n) == <<"vsf", n>>

\* the number n of a remote id <<kind, n>>
Serial(id) == id[2]

\* OpenAIFileManager.get_by_id: the file object, or None
get_by_id(file_id) ==
    IF \E f \in files : f.id = file_id
    THEN CHOOSE f \in files : f.id = file_id ELSE None

\* article ids check_existing_files derives from a complete vector store listing
VectorStoreNames ==
    {ArticleIdOfFilename(f.filename) :
        f \in {g \in files : \E e \in vstore : e.file_id = g.id}}

\* FileConverter.convert_md_to_txt: read the .md as text, write it as .txt
\* open(p, 'r').read(): universal newlines, every line ending is read as LF
ReadText(bytes) == bytes[2]
\* open(p, 'w').write(content): text mode writes each LF as os.linesep
WriteText(content) == <<"utf8", content, linesep>>
convert_md_to_txt(md_file_path) ==
    [filename |-> TxtName(md_file_path),
     bytes |-> WriteText(ReadText(articlesDir[Resolve(md_file_path)]))]

\* ---------------------------------------------------------------- Init
\* What the first process finds.  The tracking file does not exist yet.  Article A
\* may already have a local copy (an earlier job saved it and its upload failed, or
\* the scraper's save_article wrote it) and may already be in the remote stores (the
\* articles directory was lost or the job moved to a new host): upload_article's
\* existence check is written for that case.
PreFile(i) == [id |-> FileIdOf(0), filename |-> <<i, "txt">>, bytes |-> Utf8Encode(1)]
PreEntry(i) == [id |-> VectorIdOf(0), file_id |-> FileIdOf(0)]

\* cleanup.py is not running
NoPool == [stage |-> "none"]

JobInit ==
    /\ pc = "none"
    /\ runs = 0
    /\ linesep = LF
    /\ pool = NoPool
    /\ \E loc \in {{}, {"A"}} :
          articlesDir = [p \in {Resolve(LocalPath(i)) : i \in loc} |-> WriteText(1)]
    /\ disk = MissingFile
    /\ file_tracking = EmptyDict
    /\ \E pre \in {{}, {"A"}} :
          /\ files = {PreFile(i) : i \in pre}
          /\ vstore = {PreEntry(i) : i \in pre}
    /\ nextId = 1
    /\ scraped = EmptyDict
    /\ local_articles = EmptyDict
    /\ changes = NoChanges
    /\ existing = {}
    /\ results = NoResults
    /\ item = [i \in Ids |-> "none"]
    /\ fileId = [i \in Ids |-> None]
    /\ vectorId = [i \in Ids |-> None]
    /\ writing = {}
    /\ tracked0 = {}
    /\ allOk = TRUE
    /\ prev = NoPrev
    /\ okUploads = {}
    /\ okAdds = {}
    /\ faults = 0
    /\ op = NoOp
    /\ ret = NoRet
    /\ seen = NoSeen
    /\ toolTracker = NoTracker
    /\ calls = 0

\* OUTPUT_DIRECTORY=articles
Init == articles_dir = <<"articles">> /\ JobInit

\* OUTPUT_DIRECTORY=./articles
DotInit == articles_dir = <<".", "articles">> /\ JobInit

\* ------------------------------------------------------------ the sync job
\* main(): OptiSignsSyncJob() constructs the components; FileTracker() loads the ledger
Construct ==
    /\ NoFault
    /\ pc = "none"
    /\ runs < MaxRuns
    /\ pc' = "scrape"
    /\ runs' = runs + 1
    /\ file_tracking' = load_file_tracking(disk)
    /\ tracked0' = DOMAIN load_file_tracking(disk)
    /\ allOk' = TRUE
    /\ UNCHANGED <<articlesDir, disk, remoteVars, scraped, local_articles, changes,
                   existing, results, item, fileId, vectorId, writing, prev>>
    /\ UNCHANGED toolVars

\* run() step 1, scrape_articles: the source answers with any set of articles
ScrapeArticles ==
    /\ NoFault
    /\ pc = "scrape"
    /\ \E S \in SUBSET Ids : \E d \in [S -> Contents] : scraped' = d
    /\ pc' = "local"
    /\ UNCHANGED <<runs, articlesDir, disk, file_tracking, remoteVars, local_articles,
                   changes, existing, results, item, fileId, vectorId, writing,
                   tracked0, allOk, prev>>
    /\ UNCHANGED toolVars

\* scrape_all_articles when a page request fails: fetch_articles returns None, the
\* loop breaks, and the articles of the pages read so far are returned as the result
ScrapeArticlesShort ==
    /\ Fault
    /\ pc = "scrape"
    /\ \E S \in (SUBSET Ids) \ {Ids} : \E d \in [S -> Contents] : scraped' = d
    /\ pc' = "local"
    /\ allOk' = FALSE
    /\ UNCHANGED <<runs, articlesDir, disk, file_tracking, remoteVars, local_articles,
                   changes, existing, results, item, fileId, vectorId, writing,
                   tracked0, prev>>
    /\ UNCHANGED toolVars

\* run()'s except branch: log_job_failure and return False; the process exits
JobFails ==
    /\ pc' = "none"
    /\ file_tracking' = EmptyDict
    /\ ResetRun
    /\ allOk' = FALSE
    /\ prev' = NoPrev
    /\ UNCHANGED <<runs, articlesDir, disk, remoteVars>>
    /\ UNCHANGED toolVars

\* scrape_articles re-raises what scrape_all_articles raises
ScrapeRaises ==
    /\ Fault
    /\ pc = "scrape"
    /\ JobFails

\* run() step 2, get_local_articles: every *.md of the directory with its hash
get_local_articles ==
    [i \in {Stem(p) : p \in DOMAIN articlesDir} |->
        LET md_file == CHOOSE p \in DOMAIN articlesDir : Stem(p) = i
        IN [path |-> md_file, hash |-> get_file_hash(md_file)]]

GetLocalArticles ==
    /\ NoFault
    /\ pc = "local"
    /\ local_articles' = get_local_articles
    /\ pc' = "identify"
    /\ UNCHANGED <<runs, articlesDir, disk, file_tracking, remoteVars, scraped,
                   changes, existing, results, item, fileId, vectorId, writing,
                   tracked0, allOk, prev>>
    /\ UNCHANGED toolVars

\* has_content_changed
has_content_changed(scraped_content, local_data) ==
    get_file_hash_from_content(scraped_content) # local_data.hash

\* identify_changes listing every article with a local copy as unchanged, changed or not
identify_changes_no_else(scraped_articles, locals) ==
    [new |-> {i \in DOMAIN scraped_articles : i \notin DOMAIN locals},
     updated |-> {i \in DOMAIN scraped_articles :
                     /\ i \in DOMAIN locals
                     /\ has_content_changed(scraped_articles[i], locals[i])},
     unchanged |-> {i \in DOMAIN scraped_articles : i \in DOMAIN locals},
     deleted |-> {i \in DOMAIN locals : i \notin DOMAIN scraped_articles}]

\* identify_changes
identify_changes(scraped_articles, locals) ==
    [new |-> {i \in DOMAIN scraped_articles : i \notin DOMAIN locals},
     updated |-> {i \in DOMAIN scraped_articles :
                     /\ i \in DOMAIN locals
                     /\ has_content_changed(scraped_articles[i], locals[i])},
     unchanged |-> {i \in DOMAIN scraped_articles :
                     /\ i \in DOMAIN locals
                     /\ ~has_content_changed(scraped_articles[i], locals[i])},
     deleted |-> {i \in DOMAIN locals : i \notin DOMAIN scraped_articles}]

IdentifyChanges ==
    /\ NoFault
    /\ pc = "identify"
    /\ changes' = identify_changes(scraped, local_articles)
    /\ pc' = "check"
    /\ UNCHANGED <<runs, articlesDir, disk, file_tracking, remoteVars, scraped,
                   local_articles, existing, results, item, fileId, vectorId,
                   writing, tracked0, allOk, prev>>
    /\ UNCHANGED toolVars

\* run() step 4, check_existing_files: both listings answer in full
CheckExistingFiles ==
    /\ NoFault
    /\ pc = "check"
    /\ existing' = VectorStoreNames
    /\ pc' = "upload"
    /\ UNCHANGED <<runs, articlesDir, disk, file_tracking, remoteVars, scraped,
                   local_articles, changes, results, item, fileId, vectorId,
                   writing, tracked0, allOk, prev>>
    /\ UNCHANGED toolVars

\* check_existing_files when a request fails: list_all_files returns [] or the
\* pages read so far, get_by_id returns None, and the sets come out short
CheckExistingFilesShort ==
    /\ Fault
    /\ pc = "check"
    /\ \E v \in (SUBSET VectorStoreNames) \ {VectorStoreNames} : existing' = v
    /\ pc' = "upload"
    /\ allOk' = FALSE
    /\ UNCHANGED <<runs, articlesDir, disk, file_tracking, remoteVars, scraped,
                   local_articles, changes, results, item, fileId, vectorId,
                   writing, tracked0, prev>>
    /\ UNCHANGED toolVars

\* ids upload_delta has an outcome for
Processed == results.uploaded \cup results.failed

\* the loops of upload_delta handing every article to a pool of workers
LoopTurnPooled(i) ==
    /\ i \in (changes.new \cup changes.updated) \ Processed
    /\ item[i] = "none"

\* the for loops of upload_delta: one upload_article call at a time, every new
\* article before the first updated one
LoopTurn(i) ==
    /\ i \in (changes.new \cup changes.updated) \ Processed
    /\ \A j \in Ids : item[j] = "none"
    /\ i \in changes.updated => changes.new \subseteq Processed

\* the local_path upload_article works on
PathOf(i) == IF i \in changes.updated THEN local_articles[i].path ELSE LocalPath(i)

\* upload_article returned success: upload_delta appends the id to 'uploaded'
Succeed(i) ==
    /\ results' = [results EXCEPT !.uploaded = @ \cup {i}]
    /\ item' = [item EXCEPT ![i] = "none"]

\* upload_article caught an exception: upload_delta appends the id to 'failed'
Fail(i) ==
    /\ results' = [results EXCEPT !.failed = @ \cup {i}]
    /\ item' = [item EXCEPT ![i] = "none"]
    /\ allOk' = FALSE

\* upload_article saving the article locally before it looks at the existence set
UploadArticleSavesFirst(i) ==
    /\ NoFault
    /\ pc = "upload"
    /\ LoopTurn(i)
    /\ articlesDir' = IF i \in changes.new
                      THEN DictSet(articlesDir, Resolve(LocalPath(i)),
                                   WriteText(scraped[i]))
                      ELSE articlesDir
    /\ IF i \in existing
       THEN Succeed(i)
       ELSE /\ item' = [item EXCEPT ![i] = "upload"]
            /\ UNCHANGED results
    /\ UNCHANGED <<pc, runs, disk, file_tracking, remoteVars, scraped, local_articles,
                   changes, existing, fileId, vectorId, writing, tracked0, allOk,
                   prev>>
    /\ UNCHANGED toolVars

\* upload_article up to the upload: the existence check and save_article_locally
UploadArticleBegin(i) ==
    /\ NoFault
    /\ pc = "upload"
    /\ LoopTurn(i)
    /\ IF i \in existing
       THEN /\ Succeed(i)
            /\ UNCHANGED articlesDir
       ELSE /\ item' = [item EXCEPT ![i] = "upload"]
            /\ articlesDir' = IF i \in changes.new
                              THEN DictSet(articlesDir, Resolve(LocalPath(i)),
                                           WriteText(scraped[i]))
                              ELSE articlesDir
            /\ UNCHANGED results
    /\ UNCHANGED <<pc, runs, disk, file_tracking, remoteVars, scraped, local_articles,
                   changes, existing, fileId, vectorId, writing, tracked0, allOk,
                   prev>>
    /\ UNCHANGED toolVars

\* upload_article writing the ledger record right after the upload, before the add
UploadThenTrack(i) ==
    /\ NoFault
    /\ pc = "upload"
    /\ item[i] = "upload"
    /\ nextId <= MaxRemoteId
    /\ LET txt == convert_md_to_txt(PathOf(i)) IN
          files' = files \cup {[id |-> FileIdOf(nextId), filename |-> txt.filename,
                                bytes |-> txt.bytes]}
    /\ nextId' = nextId + 1
    /\ fileId' = [fileId EXCEPT ![i] = FileIdOf(nextId)]
    /\ okUploads' = okUploads \cup {FileIdOf(nextId)}
    /\ item' = [item EXCEPT ![i] = "track"]
    /\ UNCHANGED <<pc, runs, articlesDir, disk, file_tracking, vstore, okAdds, scraped,
                   local_articles, changes, existing, results, vectorId, writing,
                   tracked0, allOk, prev>>
    /\ UNCHANGED toolVars

\* file_manager.upload_markdown_file(local_path) returns the new file's id
UploadMarkdownFile(i) ==
    /\ NoFault
    /\ pc = "upload"
    /\ item[i] = "upload"
    /\ nextId <= MaxRemoteId
    /\ LET txt == convert_md_to_txt(PathOf(i)) IN
          files' = files \cup {[id |-> FileIdOf(nextId), filename |-> txt.filename,
                                bytes |-> txt.bytes]}
    /\ nextId' = nextId + 1
    /\ fileId' = [fileId EXCEPT ![i] = FileIdOf(nextId)]
    /\ okUploads' = okUploads \cup {FileIdOf(nextId)}
    /\ item' = [item EXCEPT ![i] = "add"]
    /\ UNCHANGED <<pc, runs, articlesDir, disk, file_tracking, vstore, okAdds, scraped,
                   local_articles, changes, existing, results, vectorId, writing,
                   tracked0, allOk, prev>>
    /\ UNCHANGED toolVars

\* the upload request fails: raise_for_status raises, upload_article catches
UploadRaises(i) ==
    /\ Fault
    /\ pc = "upload"
    /\ item[i] = "upload"
    /\ Fail(i)
    /\ UNCHANGED <<pc, runs, articlesDir, disk, file_tracking, remoteVars, scraped,
                   local_articles, changes, existing, fileId, vectorId, writing,
                   tracked0, prev>>
    /\ UNCHANGED toolVars

\* upload_article listing the vector store again after each add
AddFileRelists(i) ==
    /\ NoFault
    /\ pc = "upload"
    /\ item[i] = "add"
    /\ nextId <= MaxRemoteId
    /\ vstore' = vstore \cup {[id |-> VectorIdOf(nextId), file_id |-> fileId[i]]}
    /\ nextId' = nextId + 1
    /\ vectorId' = [vectorId EXCEPT ![i] = VectorIdOf(nextId)]
    /\ okAdds' = okAdds \cup {<<VectorIdOf(nextId), fileId[i]>>}
    /\ item' = [item EXCEPT ![i] = "track"]
    /\ existing' = existing \cup {i}
    /\ UNCHANGED <<pc, runs, articlesDir, disk, file_tracking, files, okUploads, scraped,
                   local_articles, changes, results, fileId, writing,
                   tracked0, allOk, prev>>
    /\ UNCHANGED toolVars

\* vector_store_manager.add_file returns the new entry's id
AddFile(i) ==
    /\ NoFault
    /\ pc = "upload"
    /\ item[i] = "add"
    /\ nextId <= MaxRemoteId
    /\ vstore' = vstore \cup {[id |-> VectorIdOf(nextId), file_id |-> fileId[i]]}
    /\ nextId' = nextId + 1
    /\ vectorId' = [vectorId EXCEPT ![i] = VectorIdOf(nextId)]
    /\ okAdds' = okAdds \cup {<<VectorIdOf(nextId), fileId[i]>>}
    /\ item' = [item EXCEPT ![i] = "track"]
    /\ UNCHANGED <<pc, runs, articlesDir, disk, file_tracking, files, okUploads, scraped,
                   local_articles, changes, existing, results, fileId, writing,
                   tracked0, allOk, prev>>
    /\ UNCHANGED toolVars

\* the add request fails and upload_article goes on to the ledger write
AddFileSwallowed(i) ==
    /\ Fault
    /\ pc = "upload"
    /\ item[i] = "add"
    /\ item' = [item EXCEPT ![i] = "track"]
    /\ allOk' = FALSE
    /\ UNCHANGED <<pc, runs, articlesDir, disk, file_tracking, remoteVars, scraped,
                   local_articles, changes, existing, results, fileId, vectorId,
                   writing, tracked0, prev>>
    /\ UNCHANGED toolVars

\* the add request fails: the uploaded file stays, no ledger write follows
AddFileRaises(i) ==
    /\ Fault
    /\ pc = "upload"
    /\ item[i] = "add"
    /\ Fail(i)
    /\ fileId' = [fileId EXCEPT ![i] = None]
    /\ UNCHANGED <<pc, runs, articlesDir, disk, file_tracking, remoteVars, scraped,
                   local_articles, changes, existing, vectorId, writing,
                   tracked0, prev>>
    /\ UNCHANGED toolVars

\* file_tracker.update_tracking(local_path, openai_file_id, vector_file_id):
\* the record goes into the in-memory ledger, hash and file_path left None
UpdateTracking(i) ==
    /\ NoFault
    /\ pc = "upload"
    /\ item[i] = "track"
    /\ file_tracking' = update_tracking(file_tracking, PathOf(i), fileId[i],
                                        vectorId[i], None, None)
    /\ writing' = writing \cup {i}
    /\ item' = [item EXCEPT ![i] = "open"]
    /\ UNCHANGED <<pc, runs, articlesDir, disk, remoteVars, scraped, local_articles,
                   changes, existing, results, fileId, vectorId, tracked0, allOk,
                   prev>>
    /\ UNCHANGED toolVars

\* save_file_tracking: open(self.tracking_file, 'w') truncates the file
SaveOpen(i) ==
    /\ NoFault
    /\ pc = "upload"
    /\ item[i] = "open"
    /\ disk' = TruncatedFile
    /\ item' = [item EXCEPT ![i] = "dump"]
    /\ UNCHANGED <<pc, runs, articlesDir, file_tracking, remoteVars, scraped,
                   local_articles, changes, existing, results, fileId, vectorId,
                   writing, tracked0, allOk, prev>>
    /\ UNCHANGED toolVars

\* save_file_tracking: json.dump writes the whole in-memory ledger; update_tracking
\* and upload_article return
SaveDump(i) ==
    /\ NoFault
    /\ pc = "upload"
    /\ item[i] = "dump"
    /\ disk' = WholeFile(file_tracking)
    /\ writing' = writing \ {i}
    /\ fileId' = [fileId EXCEPT ![i] = None]
    /\ vectorId' = [vectorId EXCEPT ![i] = None]
    /\ Succeed(i)
    /\ UNCHANGED <<pc, runs, articlesDir, file_tracking, remoteVars, scraped,
                   local_articles, changes, existing, tracked0, allOk, prev>>
    /\ UNCHANGED toolVars

\* save_file_tracking raises (open or write fails, OSError): the file stays as the
\* failed call left it, the in-memory record stays, upload_article catches
SaveRaises(i) ==
    /\ Fault
    /\ pc = "upload"
    /\ item[i] \in {"open", "dump"}
    /\ writing' = writing \ {i}
    /\ fileId' = [fileId EXCEPT ![i] = None]
    /\ vectorId' = [vectorId EXCEPT ![i] = None]
    /\ Fail(i)
    /\ UNCHANGED <<pc, runs, articlesDir, disk, file_tracking, remoteVars, scraped,
                   local_articles, changes, existing, tracked0, prev>>
    /\ UNCHANGED toolVars

\* upload_delta giving up at the first failed article, the others still waiting
UploadDeltaAborts ==
    /\ NoFault
    /\ pc = "upload"
    /\ results.failed # {}
    /\ \A j \in Ids : item[j] = "none"
    /\ results' = [results EXCEPT !.skipped = changes.unchanged]
    /\ pc' = "log"
    /\ UNCHANGED <<runs, articlesDir, disk, file_tracking, remoteVars, scraped,
                   local_articles, changes, existing, item, fileId, vectorId,
                   writing, tracked0, allOk, prev>>
    /\ UNCHANGED toolVars

\* upload_delta removing the vector store entries of the deleted articles before it
\* returns
UploadDeltaPrunes ==
    /\ NoFault
    /\ pc = "upload"
    /\ changes.new \cup changes.updated \subseteq Processed
    /\ \A j \in Ids : item[j] = "none"
    /\ results' = [results EXCEPT !.skipped = changes.unchanged]
    /\ vstore' = {e \in vstore : \A f \in files :
                      f.id = e.file_id
                          => ArticleIdOfFilename(f.filename) \notin changes.deleted}
    /\ pc' = "log"
    /\ UNCHANGED <<runs, articlesDir, disk, file_tracking, files, nextId, okUploads,
                   okAdds, scraped, local_articles, changes, existing, item, fileId,
                   vectorId, writing, tracked0, allOk, prev>>
    /\ UNCHANGED toolVars

\* upload_delta after its two loops: every unchanged article is skipped
UploadDeltaReturns ==
    /\ NoFault
    /\ pc = "upload"
    /\ changes.new \cup changes.updated \subseteq Processed
    /\ \A j \in Ids : item[j] = "none"
    /\ results' = [results EXCEPT !.skipped = changes.unchanged]
    /\ pc' = "log"
    /\ UNCHANGED <<runs, articlesDir, disk, file_tracking, remoteVars, scraped,
                   local_articles, changes, existing, item, fileId, vectorId,
                   writing, tracked0, allOk, prev>>
    /\ UNCHANGED toolVars

\* run() step 6, log_final_results, return True; the process exits
LogFinalResults ==
    /\ NoFault
    /\ pc = "log"
    /\ pc' = "none"
    /\ prev' = [done |-> TRUE, scraped |-> scraped, failed |-> results.failed]
    /\ file_tracking' = EmptyDict
    /\ ResetRun
    /\ UNCHANGED <<runs, articlesDir, disk, remoteVars, allOk>>
    /\ UNCHANGED toolVars

\* the process is killed between two steps: only the disk and the remote survive
Terminate ==
    /\ Fault
    /\ pc # "none"
    /\ pc' = "none"
    /\ prev' = NoPrev
    /\ file_tracking' = EmptyDict
    /\ ResetRun
    /\ UNCHANGED <<runs, articlesDir, disk, remoteVars, allOk>>
    /\ UNCHANGED toolVars

\* somebody removes an entry from the vector store while no job runs
ExternalRemove ==
    /\ Fault
    /\ pc = "none"
    /\ \E e \in vstore : vstore' = vstore \ {e}
    /\ UNCHANGED <<pc, runs, articlesDir, disk, file_tracking, files, nextId,
                   okUploads, okAdds, runVars, allOk, prev>>
    /\ UNCHANGED toolVars

Next ==
    \/ Construct
    \/ ScrapeArticles
    \/ ScrapeArticlesShort
    \/ ScrapeRaises
    \/ GetLocalArticles
    \/ IdentifyChanges
    \/ CheckExistingFiles
    \/ CheckExistingFilesShort
    \/ \E i \in Ids : UploadArticleBegin(i)
    \/ \E i \in Ids : UploadMarkdownFile(i)
    \/ \E i \in Ids : UploadRaises(i)
    \/ \E i \in Ids : AddFile(i)
    \/ \E i \in Ids : AddFileRaises(i)
    \/ \E i \in Ids : UpdateTracking(i)
    \/ \E i \in Ids : SaveOpen(i)
    \/ \E i \in Ids : SaveDump(i)
    \/ \E i \in Ids : SaveRaises(i)
    \/ UploadDeltaReturns
    \/ LogFinalResults
    \/ Terminate
    \/ ExternalRemove

Spec == Init /\ [][Next]_vars

\* the sync job on a host configured with OUTPUT_DIRECTORY=./articles
DotSpec == DotInit /\ [][Next]_vars

\* ------------------------------------------------- fingerprints of saved articles
\* no sync job is running and none has run
JobAtRest ==
    /\ pc = "none"
    /\ runs = 0
    /\ scraped = EmptyDict
    /\ local_articles = EmptyDict
    /\ changes = NoChanges
    /\ existing = {}
    /\ results = NoResults
    /\ item = [i \in Ids |-> "none"]
    /\ fileId = [i \in Ids |-> None]
    /\ vectorId = [i \in Ids |-> None]
    /\ writing = {}
    /\ tracked0 = {}
    /\ allOk = TRUE
    /\ prev = NoPrev
    /\ okUploads = {}
    /\ okAdds = {}
    /\ faults = 0

\* no manager or FileTracker call has been made
ToolAtRest ==
    /\ op = NoOp
    /\ ret = NoRet
    /\ seen = NoSeen
    /\ toolTracker = NoTracker
    /\ calls = 0

\* save_article_locally, get_local_articles and identify_changes on their own, on a
\* host of either line ending and with either spelling of the directory
HashInit ==
    /\ \E d \in {<<"articles">>, <<".", "articles">>} : articles_dir = d
    /\ \E eol \in {LF, CRLF} : linesep = eol
    /\ pool = NoPool
    /\ articlesDir = EmptyDict
    /\ disk = MissingFile
    /\ file_tracking = EmptyDict
    /\ files = {}
    /\ vstore = {}
    /\ nextId = 1
    /\ JobAtRest
    /\ ToolAtRest

\* what the fingerprint steps leave alone
hashFrame == <<pc, runs, disk, file_tracking, files, vstore, nextId, existing, results,
               item, fileId, vectorId, writing, tracked0, allOk, prev, okUploads,
               okAdds, faults, toolVars>>

\* the source is fetched: any set of articles
HashScrape ==
    /\ \E S \in SUBSET Ids : \E d \in [S -> Contents] : scraped' = d
    /\ UNCHANGED <<articlesDir, local_articles, changes, hashFrame>>

\* save_article_locally(article_data) for a fetched article
SaveArticleLocally(i) ==
    /\ i \in DOMAIN scraped
    /\ articlesDir' = DictSet(articlesDir, Resolve(LocalPath(i)), WriteText(scraped[i]))
    /\ UNCHANGED <<scraped, local_articles, changes, hashFrame>>

\* get_local_articles reads and fingerprints the files
HashLocal ==
    /\ local_articles' = get_local_articles
    /\ UNCHANGED <<articlesDir, scraped, changes, hashFrame>>

\* identify_changes on the fetched articles and the fingerprints read last
HashIdentify ==
    /\ changes' = identify_changes(scraped, local_articles)
    /\ UNCHANGED <<articlesDir, scraped, local_articles, hashFrame>>

HashNext ==
    \/ HashScrape
    \/ \E i \in Ids : SaveArticleLocally(i)
    \/ HashLocal
    \/ HashIdentify

HashSpec == HashInit /\ [][HashNext]_vars

\* the ledger a process constructed now would load from the tracking file
DiskLedger == load_file_tracking(disk)

\* ------------------------------------------- the managers and the FileTracker
\* Calls on OpenAIFileManager, VectorStoreManager and FileTracker made by a process
\* other than the sync job (cleanup.py, an operator's script), one call at a time,
\* while a second process may load the tracking file at any moment.
jobVars == <<pc, runs, articlesDir, scraped, local_articles, changes, existing,
             results, item, fileId, vectorId, writing, tracked0, allOk, prev,
             okUploads, okAdds, faults, hostVars>>

\* Python True and False
True == <<"True">>
False == <<"False">>

\* the ids a caller may pass: those the remote has handed out, live or not
FileIds == {FileIdOf(n) : n \in 0..(nextId - 1)}
VectorIds == {VectorIdOf(n) : n \in 0..(nextId - 1)}

\* what a finished call handed back: the response of its last request, whether any of
\* its requests failed, whether it raised, and the value it returned
Ret(name, arg, had, response, failed, raised, value) ==
    [name |-> name, arg |-> arg, had |-> had, response |-> response,
     failed |-> failed, raised |-> raised, value |-> value,
     over |-> toolTracker.over]

\* the objects and the tracking file the process finds
PreSerial(i) == IF i = "A" THEN 0 ELSE 1
ToolFile(i) ==
    [id |-> FileIdOf(PreSerial(i)), filename |-> <<i, "txt">>, bytes |-> Utf8Encode(1)]
ToolEntry(i) == [id |-> VectorIdOf(PreSerial(i)), file_id |-> FileIdOf(PreSerial(i))]
ToolLedger(S) ==
    [k \in {LocalPath(i) : i \in S} |->
        [file_id |-> FileIdOf(PreSerial(Stem(k))),
         vector_store_file_id |-> VectorIdOf(PreSerial(Stem(k))),
         hash |-> None,
         uploaded_at |-> <<"run", 0>>,
         file_path |-> None]]

ToolInit ==
    /\ pc = "none"
    /\ runs = 0
    /\ articles_dir = <<"articles">>
    /\ linesep = LF
    /\ pool = NoPool
    /\ articlesDir = [p \in {Resolve(LocalPath("A"))} |-> WriteText(1)]
    /\ \E d \in {MissingFile, TruncatedFile, ArrayFile, WholeFile(ToolLedger({"A"})),
                 WholeFile(ToolLedger(Ids))} : disk = d
    /\ file_tracking = EmptyDict
    /\ \E pre \in SUBSET Ids :
          /\ files = {ToolFile(i) : i \in pre}
          /\ \E ent \in SUBSET pre : vstore = {ToolEntry(i) : i \in ent}
    /\ nextId = Cardinality(Ids)
    /\ scraped = EmptyDict
    /\ local_articles = EmptyDict
    /\ changes = NoChanges
    /\ existing = {}
    /\ results = NoResults
    /\ item = [i \in Ids |-> "none"]
    /\ fileId = [i \in Ids |-> None]
    /\ vectorId = [i \in Ids |-> None]
    /\ writing = {}
    /\ tracked0 = {}
    /\ allOk = TRUE
    /\ prev = NoPrev
    /\ okUploads = {}
    /\ okAdds = {}
    /\ faults = 0
    /\ op = NoOp
    /\ ret = NoRet
    /\ seen = NoSeen
    /\ toolTracker = NoTracker
    /\ calls = 0

\* no call of the process is in progress, and it makes another one
Idle ==
    /\ op.name = "none"
    /\ calls < MaxCalls
    /\ calls' = calls + 1

\* the response to a DELETE request for one object of a collection
delete_response(ids, id, fails) ==
    IF fails THEN "error" ELSE IF id \in ids THEN "ok" ELSE "not_found"

\* delete / remove_file: raise_for_status raises for every 4xx and 5xx status, the
\* except branch returns False
delete_value(response) == IF response = "ok" THEN True ELSE False

\* OpenAIFileManager.delete(file_id)
Delete ==
    /\ Idle
    /\ \E file_id \in FileIds : \E fails \in BOOLEAN :
          LET response == delete_response({f.id : f \in files}, file_id, fails) IN
          /\ files' = IF response = "ok" THEN {f \in files : f.id # file_id} ELSE files
          /\ ret' = Ret("delete", file_id, file_id \in {f.id : f \in files}, response,
                        response # "ok", FALSE, delete_value(response))
    /\ UNCHANGED <<jobVars, disk, file_tracking, vstore, nextId, op, seen, toolTracker>>

\* VectorStoreManager.remove_file(vector_store_id, file_id)
RemoveFile ==
    /\ Idle
    /\ \E file_id \in VectorIds : \E fails \in BOOLEAN :
          LET response == delete_response({e.id : e \in vstore}, file_id, fails) IN
          /\ vstore' = IF response = "ok" THEN {e \in vstore : e.id # file_id} ELSE vstore
          /\ ret' = Ret("remove_file", file_id, file_id \in {e.id : e \in vstore},
                        response, response # "ok", FALSE, delete_value(response))
    /\ UNCHANGED <<jobVars, disk, file_tracking, files, nextId, op, seen, toolTracker>>

\* OpenAIFileManager.replace_file, first half: self.delete(old_file_id), result unread
FileReplaceDelete ==
    /\ Idle
    /\ \E old_file_id \in FileIds \cup {None} : \E new_file_path \in DOMAIN articlesDir :
       \E fails \in BOOLEAN :
          LET response == IF old_file_id = None THEN "ok"
                          ELSE delete_response({f.id : f \in files}, old_file_id, fails)
          IN
          /\ files' = IF old_file_id # None /\ response = "ok"
                      THEN {f \in files : f.id # old_file_id} ELSE files
          /\ op' = [name |-> "file_replace", old |-> old_file_id,
                    had |-> old_file_id \in {f.id : f \in files},
                    new |-> new_file_path, failed |-> response # "ok"]
    /\ ret' = NoRet
    /\ UNCHANGED <<jobVars, disk, file_tracking, vstore, nextId, seen, toolTracker>>

\* OpenAIFileManager.replace_file, second half: upload_file returns the new id
FileReplaceUpload ==
    /\ op.name = "file_replace"
    /\ nextId <= MaxRemoteId
    /\ files' = files \cup {[id |-> FileIdOf(nextId),
                             filename |-> <<Stem(op.new), "md">>,
                             bytes |-> articlesDir[op.new]]}
    /\ nextId' = nextId + 1
    /\ ret' = Ret("file_replace", op.old, op.had, "ok", op.failed, FALSE,
                  FileIdOf(nextId))
    /\ op' = NoOp
    /\ UNCHANGED <<jobVars, calls, disk, file_tracking, vstore, seen, toolTracker>>

\* OpenAIFileManager.replace_file: upload_file raises, the except branch returns None
FileReplaceUploadRaises ==
    /\ op.name = "file_replace"
    /\ ret' = Ret("file_replace", op.old, op.had, "error", TRUE, FALSE, None)
    /\ op' = NoOp
    /\ UNCHANGED <<jobVars, calls, disk, file_tracking, files, vstore, nextId, seen,
                   toolTracker>>

\* VectorStoreManager.replace_file, first half: self.remove_file(old_file_id), result
\* unread
VectorReplaceRemove ==
    /\ Idle
    /\ \E old_file_id \in VectorIds \cup {None} : \E new_openai_file_id \in FileIds :
       \E fails \in BOOLEAN :
          LET response == IF old_file_id = None THEN "ok"
                          ELSE delete_response({e.id : e \in vstore}, old_file_id, fails)
          IN
          /\ vstore' = IF old_file_id # None /\ response = "ok"
                       THEN {e \in vstore : e.id # old_file_id} ELSE vstore
          /\ op' = [name |-> "vector_replace", old |-> old_file_id,
                    had |-> old_file_id \in {e.id : e \in vstore},
                    new |-> new_openai_file_id, failed |-> response # "ok"]
    /\ ret' = NoRet
    /\ UNCHANGED <<jobVars, disk, file_tracking, files, nextId, seen, toolTracker>>

\* VectorStoreManager.replace_file, second half: add_file returns the new entry's id
VectorReplaceAdd ==
    /\ op.name = "vector_replace"
    /\ op.new \in {f.id : f \in files}
    /\ nextId <= MaxRemoteId
    /\ vstore' = vstore \cup {[id |-> VectorIdOf(nextId), file_id |-> op.new]}
    /\ nextId' = nextId + 1
    /\ ret' = Ret("vector_replace", op.old, op.had, "ok", op.failed, FALSE,
                  VectorIdOf(nextId))
    /\ op' = NoOp
    /\ UNCHANGED <<jobVars, calls, disk, file_tracking, files, seen, toolTracker>>

\* VectorStoreManager.replace_file: add_file raises (the request fails, or the file
\* does not exist), the except branch returns None
VectorReplaceAddRaises ==
    /\ op.name = "vector_replace"
    /\ ret' = Ret("vector_replace", op.old, op.had, "error", TRUE, FALSE, None)
    /\ op' = NoOp
    /\ UNCHANGED <<jobVars, calls, disk, file_tracking, files, vstore, nextId, seen,
                   toolTracker>>

\* OpenAIFileManager.list_all_files: one request; [] for any failure
FileListAll ==
    /\ Idle
    /\ \E fails \in BOOLEAN :
          ret' = Ret("file_list", None, FALSE, IF fails THEN "error" ELSE "ok", fails,
                     FALSE, IF fails THEN {} ELSE {f.id : f \in files})
    /\ UNCHANGED <<jobVars, disk, file_tracking, files, vstore, nextId, op, seen,
                   toolTracker>>

\* the ids of a set in the order the store lists them
RECURSIVE Ascending(_)
Ascending(S) ==
    IF S = {} THEN EmptyList
    ELSE LET first == CHOOSE id \in S : \A x \in S : Serial(id) <= Serial(x)
         IN <<first>> \o Ascending(S \ {first})

\* one page of GET /vector_stores/{id}/files?after=...: the next PageLimit
\* entries in the store's order, and whether more follow
Page(after) ==
    LET rest == Ascending({e.id : e \in {x \in vstore :
                              after = None \/ Serial(x.id) > Serial(after)}})
        data == SubSeq(rest, 1, IF Len(rest) < PageLimit THEN Len(rest) ELSE PageLimit)
    IN [data |-> data,
        last |-> IF data = EmptyList THEN None ELSE data[Len(data)],
        has_more |-> Len(rest) > Len(data)]

\* VectorStoreManager.list_all_files up to its loop: all_files = [], params = {}
VectorListBegin ==
    /\ Idle
    /\ op' = [name |-> "vector_list", all_files |-> EmptyList, after |-> None]
    /\ ret' = NoRet
    /\ UNCHANGED <<jobVars, disk, file_tracking, files, vstore, nextId, seen,
                   toolTracker>>

\* list_all_files returning after its first page, whether or not more follow
VectorListFirstPage ==
    /\ op.name = "vector_list"
    /\ op' = NoOp
    /\ ret' = Ret("vector_list", None, FALSE, "ok", FALSE, FALSE,
                  op.all_files \o Page(op.after).data)
    /\ UNCHANGED <<jobVars, calls, disk, file_tracking, files, vstore, nextId, seen,
                   toolTracker>>

\* one turn of the loop with a 200 response: extend all_files, then go on to the next
\* page or return
VectorListPage ==
    /\ op.name = "vector_list"
    /\ LET data == Page(op.after) IN
          IF data.has_more /\ data.data # EmptyList
          THEN /\ op' = [op EXCEPT !.all_files = @ \o data.data, !.after = data.last]
               /\ ret' = NoRet
          ELSE /\ op' = NoOp
               /\ ret' = Ret("vector_list", None, FALSE, "ok", FALSE, FALSE,
                             op.all_files \o data.data)
    /\ UNCHANGED <<jobVars, calls, disk, file_tracking, files, vstore, nextId, seen,
                   toolTracker>>

\* one turn of the loop with a status other than 200: break, return the pages so far
VectorListPageNot200 ==
    /\ op.name = "vector_list"
    /\ op' = NoOp
    /\ ret' = Ret("vector_list", None, FALSE, "error", TRUE, FALSE, op.all_files)
    /\ UNCHANGED <<jobVars, calls, disk, file_tracking, files, vstore, nextId, seen,
                   toolTracker>>

\* one turn of the loop in which requests.get raises: return []
VectorListPageRaises ==
    /\ op.name = "vector_list"
    /\ op' = NoOp
    /\ ret' = Ret("vector_list", None, FALSE, "error", TRUE, FALSE, EmptyList)
    /\ UNCHANGED <<jobVars, calls, disk, file_tracking, files, vstore, nextId, seen,
                   toolTracker>>

\* FileTracker(): __init__ loads the tracking file
FileTrackerInit ==
    /\ op.name = "none"
    /\ toolTracker.over = "none"
    /\ toolTracker' = [over |-> disk.state, type |-> LoadedType(disk)]
    /\ file_tracking' = load_file_tracking(disk)
    /\ ret' = [Ret("FileTracker", None, FALSE, "ok", FALSE, FALSE, None)
                  EXCEPT !.over = disk.state]
    /\ UNCHANGED <<jobVars, calls, disk, files, vstore, nextId, op, seen>>

\* FileTracker.get_tracking_info(file_key): self.file_tracking.get, which a list does
\* not have (AttributeError)
GetTrackingInfo ==
    /\ Idle
    /\ toolTracker.over # "none"
    /\ \E file_key \in {LocalPath(i) : i \in Ids} :
          ret' = IF toolTracker.type = "list"
                 THEN Ret("get_tracking_info", file_key, FALSE, "ok", FALSE, TRUE, None)
                 ELSE Ret("get_tracking_info", file_key, file_key \in DOMAIN file_tracking,
                          "ok", FALSE, FALSE,
                          IF file_key \in DOMAIN file_tracking
                          THEN file_tracking[file_key].file_id ELSE None)
    /\ UNCHANGED <<jobVars, disk, file_tracking, files, vstore, nextId, op, seen,
                   toolTracker>>

\* FileTracker.update_tracking(file_key, file_id, vector_store_file_id): the item
\* assignment raises on a list (TypeError: list indices must be integers); on a dict
\* the record is set and the tracking file rewritten
UpdateTrackingCall ==
    /\ Idle
    /\ toolTracker.over # "none"
    /\ \E file_key \in {LocalPath(i) : i \in Ids} :
          IF toolTracker.type = "list"
          THEN /\ ret' = Ret("update_tracking", file_key, FALSE, "ok", FALSE, TRUE, None)
               /\ UNCHANGED <<file_tracking, disk>>
          ELSE /\ file_tracking' = update_tracking(file_tracking, file_key,
                                       FileIdOf(0), VectorIdOf(0), None, None)
               /\ disk' = WholeFile(file_tracking')
               /\ ret' = Ret("update_tracking", file_key, FALSE, "ok", FALSE, FALSE, None)
    /\ UNCHANGED <<jobVars, files, vstore, nextId, op, seen, toolTracker>>

\* FileTracker.clear_tracking: self.file_tracking = {}
ClearTracking ==
    /\ Idle
    /\ toolTracker.over # "none"
    /\ file_tracking' = EmptyDict
    /\ toolTracker' = [toolTracker EXCEPT !.type = "dict"]
    /\ op' = [name |-> "clear_tracking", stage |-> "begin", before |-> DiskLedger]
    /\ ret' = NoRet
    /\ UNCHANGED <<jobVars, disk, files, vstore, nextId, seen>>

\* a save that overwrites the file in place and so passes through a file that still
\* holds some of the old records
ClearOpenInPlace ==
    /\ op.name = "clear_tracking"
    /\ op.stage = "begin"
    /\ \E K \in SUBSET (DOMAIN op.before) :
          disk' = WholeFile([k \in K |-> op.before[k]])
    /\ op' = [op EXCEPT !.stage = "open"]
    /\ UNCHANGED <<jobVars, calls, file_tracking, files, vstore, nextId, ret, seen, toolTracker>>

\* clear_tracking, save_file_tracking: open(self.tracking_file, 'w') truncates the file
ClearOpen ==
    /\ op.name = "clear_tracking"
    /\ op.stage = "begin"
    /\ disk' = TruncatedFile
    /\ op' = [op EXCEPT !.stage = "open"]
    /\ UNCHANGED <<jobVars, calls, file_tracking, files, vstore, nextId, ret, seen, toolTracker>>

\* clear_tracking, save_file_tracking: json.dump writes {} and the file is closed
ClearDump ==
    /\ op.name = "clear_tracking"
    /\ op.stage = "open"
    /\ disk' = WholeFile(file_tracking)
    /\ op' = NoOp
    /\ ret' = Ret("clear_tracking", None, FALSE, "ok", FALSE, FALSE, None)
    /\ UNCHANGED <<jobVars, calls, file_tracking, files, vstore, nextId, seen, toolTracker>>

\* the process dies inside clear_tracking: the file stays as the last step left it
ClearKilled ==
    /\ op.name = "clear_tracking"
    /\ op.stage \in {"begin", "open"}
    /\ op' = [op EXCEPT !.stage = "dead"]
    /\ UNCHANGED <<jobVars, calls, disk, file_tracking, files, vstore, nextId, ret, seen,
                   toolTracker>>

\* a second process constructs a FileTracker: load_file_tracking reads the file as it is
ReaderLoads ==
    /\ seen.file = "none"
    /\ seen' = [during |-> op.name,
                stage |-> IF op.name = "clear_tracking" THEN op.stage ELSE "none",
                before |-> IF op.name = "clear_tracking" THEN op.before ELSE EmptyDict,
                file |-> disk.state,
                ledger |-> load_file_tracking(disk)]
    /\ UNCHANGED <<jobVars, calls, disk, file_tracking, files, vstore, nextId, op, ret,
                   toolTracker>>

ToolNext ==
    \/ Delete
    \/ RemoveFile
    \/ FileReplaceDelete
    \/ FileReplaceUpload
    \/ FileReplaceUploadRaises
    \/ VectorReplaceRemove
    \/ VectorReplaceAdd
    \/ VectorReplaceAddRaises
    \/ FileListAll
    \/ VectorListBegin
    \/ VectorListPage
    \/ VectorListPageNot200
    \/ VectorListPageRaises
    \/ FileTrackerInit
    \/ GetTrackingInfo
    \/ UpdateTrackingCall
    \/ ClearTracking
    \/ ClearOpen
    \/ ClearDump
    \/ ClearKilled
    \/ ReaderLoads

ToolSpec == ToolInit /\ [][ToolNext]_vars

\* --------------------------------------------- listing a store that answers
\* a vector store of up to MaxRemoteId entries, each pointing at a file of its own; the
\* files of even number carry article A's name and the others B's, and some files
\* are gone
ListFile(n) ==
    [id |-> FileIdOf(n),
     filename |-> <<IF n % 2 = 0 THEN "A" ELSE "B", "txt">>,
     bytes |-> Utf8Encode(1)]
ListEntry(n) == [id |-> VectorIdOf(n), file_id |-> FileIdOf(n)]

ListInit ==
    /\ articles_dir = <<"articles">>
    /\ linesep = LF
    /\ pool = NoPool
    /\ articlesDir = EmptyDict
    /\ disk = MissingFile
    /\ file_tracking = EmptyDict
    /\ \E F \in SUBSET (0..(MaxRemoteId - 1)) : files = {ListFile(n) : n \in F}
    /\ \E V \in SUBSET (0..(MaxRemoteId - 1)) : vstore = {ListEntry(n) : n \in V}
    /\ nextId = MaxRemoteId
    /\ JobAtRest
    /\ ToolAtRest

\* create_file_index, the loop over the listed entries: the index after the entries of
\* the list, a later entry replacing an earlier one of the same filename
RECURSIVE file_index(_)
file_index(listed) ==
    IF listed = EmptyList THEN EmptyDict
    ELSE LET index == file_index(SubSeq(listed, 1, Len(listed) - 1))
             file == CHOOSE e \in vstore : e.id = listed[Len(listed)]
         IN IF \E f \in files : f.id = file.file_id
            THEN DictSet(index, get_by_id(file.file_id).filename,
                         [vector_store_file_id |-> file.id,
                          openai_file_id |-> file.file_id])
            ELSE index

\* create_file_index once its list_all_files call has returned
CreateFileIndex ==
    /\ op.name = "none"
    /\ ret.name = "vector_list"
    /\ ret' = Ret("create_file_index", ret.value, FALSE, "ok", FALSE, FALSE,
                  file_index(ret.value))
    /\ UNCHANGED <<jobVars, calls, disk, file_tracking, files, vstore, nextId, op, seen,
                   toolTracker>>

ListNext ==
    \/ VectorListBegin
    \/ VectorListPage
    \/ CreateFileIndex

\* the store answers every request, and the loop of list_all_files goes on until it
\* breaks
ListLive == ListInit /\ [][ListNext]_vars /\ WF_vars(VectorListPage)

\* ------------------------------------------------------------- cleanup.py
\* cleanup_all(max_workers): the main thread lists, submits one delete task per listed
\* file to a ThreadPoolExecutor, counts the futures as they complete, leaves the with
\* block and clears the ledger, while up to MaxWorkers worker threads run the tasks.
\* The tracking file the script finds: none, or one with a record.
CleanupDisks == {MissingFile, WholeFile(ToolLedger({"A"}))}

CleanupInit ==
    /\ articles_dir = <<"articles">>
    /\ linesep = LF
    /\ pool = NoPool
    /\ articlesDir = EmptyDict
    /\ \E d \in CleanupDisks : disk = d
    /\ file_tracking = EmptyDict
    /\ \E F \in SUBSET (0..(MaxRemoteId - 2)) : files = {ListFile(n) : n \in F}
    /\ \E V \in SUBSET (0..1) : vstore = {ListEntry(n) : n \in V}
    /\ nextId = MaxRemoteId
    /\ JobAtRest
    /\ ToolAtRest

\* what the steps of the pool leave alone
cleanupFrame == <<pc, runs, articlesDir, scraped, local_articles, changes, existing,
                  results, item, fileId, vectorId, writing, tracked0, allOk, prev,
                  okUploads, okAdds, faults, articles_dir, linesep, disk,
                  file_tracking, nextId, op, ret, seen, toolTracker, calls>>

\* file_tracker = FileTracker()
CleanupConstruct ==
    /\ pool.stage = "none"
    /\ FileTrackerInit

\* step 1, vector_manager.delete_all_files: every listed entry is removed unless its
\* request fails, and a failed listing leaves them all
DeleteAllVectorFiles ==
    /\ pool.stage = "none"
    /\ toolTracker.over # "none"
    /\ \E V \in SUBSET vstore : vstore' = V
    /\ pool' = [stage |-> "vector"]
    /\ UNCHANGED <<cleanupFrame, files>>

\* step 2, files = file_manager.list_all_files(): the files of the store, [] when the
\* request fails; an object of the list may come without an id
CleanupList ==
    /\ pool.stage = "vector"
    /\ \E fails \in BOOLEAN : \E noid \in BOOLEAN :
          pool' = [stage |-> "submit",
                   listed |-> IF fails THEN {}
                              ELSE {f.id : f \in files} \cup (IF noid THEN {None} ELSE {}),
                   tasks |-> {},
                   deleted_count |-> 0,
                   failed_count |-> 0]
    /\ UNCHANGED <<cleanupFrame, files, vstore>>

\* the listed files with an id that no task has been submitted for
Unsubmitted == {id \in pool.listed \ {None} : \A t \in pool.tasks : t.id # id}

\* the tasks a worker thread is running
Running == {t \in pool.tasks : t.state = "running"}

\* the task t of the pool in another state
Moved(t, state) == (pool.tasks \ {t}) \cup {[t EXCEPT !.state = state]}

\* executor.submit(file_manager.delete, file.get('id')) for the next file of the list
SubmitTask ==
    /\ pool.stage = "submit"
    /\ Unsubmitted # {}
    /\ LET id == Ascending(Unsubmitted)[1] IN
          pool' = [pool EXCEPT !.tasks = @ \cup {[future |-> Cardinality(pool.tasks),
                                                  id |-> id, state |-> "queued"]}]
    /\ UNCHANGED <<cleanupFrame, files, vstore>>

\* the dict comprehension is complete: the main thread enters the as_completed loop
SubmitDone ==
    /\ pool.stage = "submit"
    /\ Unsubmitted = {}
    /\ pool' = [pool EXCEPT !.stage = "collect"]
    /\ UNCHANGED <<cleanupFrame, files, vstore>>

\* a worker thread that is free takes a task from the queue
TaskStart ==
    /\ pool.stage \in {"submit", "collect"}
    /\ Cardinality(Running) < MaxWorkers
    /\ \E t \in pool.tasks :
          /\ t.state = "queued"
          /\ pool' = [pool EXCEPT !.tasks = Moved(t, "running")]
    /\ UNCHANGED <<cleanupFrame, files, vstore>>

\* file_manager.delete(file_id) in a worker thread: the future holds True or False
TaskFinish ==
    /\ pool.stage \in {"submit", "collect"}
    /\ \E t \in Running : \E fails \in BOOLEAN :
          LET response == delete_response({f.id : f \in files}, t.id, fails) IN
          /\ files' = IF response = "ok" THEN {f \in files : f.id # t.id} ELSE files
          /\ pool' = [pool EXCEPT !.tasks = Moved(t, IF response = "ok"
                                                     THEN "true" ELSE "false")]
    /\ UNCHANGED <<cleanupFrame, vstore>>

\* the with block left without waiting for the tasks
PoolExitNoWait ==
    /\ pool.stage = "collect"
    /\ pool' = [pool EXCEPT !.stage = "exited"]
    /\ UNCHANGED <<cleanupFrame, files, vstore>>

\* one turn of for future in as_completed(future_to_file): future.result() is counted
CountCompleted ==
    /\ pool.stage = "collect"
    /\ \E t \in pool.tasks :
          /\ t.state \in {"true", "false"}
          /\ pool' = [pool EXCEPT !.tasks = Moved(t, "counted"),
                                  !.deleted_count = IF t.state = "true" THEN @ + 1 ELSE @,
                                  !.failed_count = IF t.state = "false" THEN @ + 1 ELSE @]
    /\ UNCHANGED <<cleanupFrame, files, vstore>>

\* as_completed has yielded every future; the with block ends, shutdown(wait=True)
PoolExit ==
    /\ pool.stage = "collect"
    /\ \A t \in pool.tasks : t.state = "counted"
    /\ pool' = [pool EXCEPT !.stage = "exited"]
    /\ UNCHANGED <<cleanupFrame, files, vstore>>

\* step 3, file_tracker.clear_tracking()
CleanupClear ==
    /\ pool.stage = "exited"
    /\ ret.name # "clear_tracking"
    /\ ClearTracking

CleanupNext ==
    \/ CleanupConstruct
    \/ DeleteAllVectorFiles
    \/ CleanupList
    \/ SubmitTask
    \/ SubmitDone
    \/ TaskStart
    \/ TaskFinish
    \/ CountCompleted
    \/ PoolExit
    \/ CleanupClear
    \/ ClearOpen
    \/ ClearDump

CleanupSpec == CleanupInit /\ [][CleanupNext]_vars

\* --------------------------------------------------------------- typing
TypeOK ==
    /\ pc \in {"none", "scrape", "local", "identify", "check", "upload", "log"}
    /\ runs \in 0..MaxRuns
    /\ disk.state \in {"missing", "corrupt", "ok", "array"}
    /\ \A i \in Ids : item[i] \in {"none", "upload", "add", "track", "open", "dump"}
    /\ writing \subseteq Ids
    /\ nextId \in 1..(MaxRemoteId + 1)
    /\ faults \in 0..MaxFaults
    /\ toolTracker.type \in {"dict", "list"}
    /\ calls \in 0..MaxCalls
    /\ linesep \in {LF, CRLF}
    /\ articles_dir \in {<<"articles">>, <<".", "articles">>}
    /\ pool.stage \in {"none", "vector", "submit", "collect", "exited"}
    /\ op.name \in {"none", "file_replace", "vector_replace", "vector_list",
                    "clear_tracking"}

\* ------------------------------------------------------- views for the claims
\* upload_delta has returned
DeltaReturned == pc = "log"

\* identify_changes has returned
Planned == pc \in {"check", "upload", "log"}

\* the live vector store entries whose file carries article i's logical name
EntriesOf(i) ==
    {e \in vstore : \E f \in files :
        f.id = e.file_id /\ ArticleIdOfFilename(f.filename) = i}

\* the latest file a successful upload created for article i is in no ledger record
\* of the tracking file
Unrecorded(i) ==
    \E f \in files :
        /\ f.id \in okUploads
        /\ ArticleIdOfFilename(f.filename) = i
        /\ \A g \in files :
              (g.id \in okUploads /\ ArticleIdOfFilename(g.filename) = i)
                  => Serial(g.id) <= Serial(f.id)
        /\ \A k \in DOMAIN DiskLedger : DiskLedger[k].file_id # f.id

\* a step in which upload_article issues a remote mutation for article i
MutationStep(i) ==
    \/ item[i] = "upload" /\ item'[i] = "add"
    \/ item[i] = "add" /\ item'[i] = "track"

\* ------------------------------------------------------------------ claims
\* C1 (as claimed): when a run follows a completed run and the source returns the
\* same articles, upload_delta reports nothing uploaded and every source id skipped.
C1_Idempotence ==
    (DeltaReturned /\ prev.done /\ scraped = prev.scraped)
        => (results.uploaded = {} /\ DOMAIN scraped \subseteq results.skipped)

\* C2 (as claimed): an article that failed in the last completed run and whose
\* source content is the same in this run is planned new or updated again.
C2_FailedIsPlannedAgain ==
    (Planned /\ prev.done)
        => \A i \in prev.failed :
              (i \in DOMAIN scraped /\ scraped[i] = prev.scraped[i])
                  => i \in changes.new \cup changes.updated

\* C3 (as claimed, its 'never unchanged' half): an article whose fingerprint in this
\* run differs from its fingerprint in the last completed run is not planned unchanged.
C3_ChangeIsDetected ==
    (Planned /\ prev.done)
        => \A i \in (DOMAIN scraped) \cap (DOMAIN prev.scraped) :
              get_file_hash_from_content(scraped[i])
                    # get_file_hash_from_content(prev.scraped[i])
                  => i \notin changes.unchanged

\* C4 (as claimed): after a run without any failure, every source id that had no
\* ledger record before the run has one, in memory and in the tracking file, whose
\* hash is the fingerprint of the id's current content.
C4_NewIdCompleteness ==
    (DeltaReturned /\ allOk)
        => \A i \in DOMAIN scraped :
              LocalPath(i) \notin tracked0
                  => \A L \in {file_tracking, DiskLedger} :
                        /\ LocalPath(i) \in DOMAIN L
                        /\ L[LocalPath(i)].hash = get_file_hash_from_content(scraped[i])

\* C5 (as claimed): an article planned unchanged whose ledger record names a vector
\* store entry that no longer exists is not reported skipped.
C5_SelfHealing ==
    DeltaReturned
        => \A i \in changes.unchanged :
              (/\ LocalPath(i) \in DOMAIN file_tracking
               /\ \A e \in vstore :
                     e.id # file_tracking[LocalPath(i)].vector_store_file_id)
                  => i \notin results.skipped

\* C6 (as claimed): once an updated article is processed with success, the vector
\* store holds exactly one live entry under its logical name, and that entry's file
\* has the new content.
C6_OneEntryWithNewContent ==
    \A i \in changes.updated \cap results.uploaded :
        /\ Cardinality(EntriesOf(i)) = 1
        /\ \A e \in EntriesOf(i) : get_by_id(e.file_id).bytes = Utf8Encode(scraped[i])

\* C7: every record of the ledger, in memory and in the tracking file as any kill
\* leaves it, names a file id a successful upload returned and a vector store id a
\* successful add of that file returned.
C7_LedgerConservative ==
    \A L \in {file_tracking, DiskLedger} : \A k \in DOMAIN L :
        /\ L[k].file_id \in okUploads
        /\ <<L[k].vector_store_file_id, L[k].file_id>> \in okAdds

\* C7 witness: a process was killed after its ledger write reached the file
C7_Witness ==
    /\ pc = "none"
    /\ ~prev.done
    /\ DOMAIN DiskLedger # {}

FailStep(i) ==
    /\ pc = "upload"
    /\ item[i] # "none"
    /\ faults' = faults + 1
    /\ pc' # "none"

\* C11: a failed upload, add or ledger write of one article puts that article in
\* 'failed' and leaves upload_delta running; upload_delta returns only when every new
\* and updated article has an outcome; run() then reports the results and returns True.
C11_FailureIsolation ==
    [][/\ \A i \in Ids :
             FailStep(i) => /\ i \in results'.failed
                            /\ pc' = "upload"
                            /\ results'.uploaded = results.uploaded
                            /\ changes' = changes
       /\ (pc = "upload" /\ pc' = "log")
             => /\ (changes.new \cup changes.updated) \subseteq Processed'
                /\ results'.failed = results.failed
       /\ (pc = "log" /\ pc' = "none" /\ faults' = faults)
             => /\ prev'.done
                /\ prev'.failed = results.failed]_vars

\* C11 witness: upload_delta has returned with one article failed after its upload
\* and another article uploaded by a later call
C11_Witness ==
    /\ DeltaReturned
    /\ \E i \in results.failed : \E j \in results.uploaded :
          \E f \in files : \E g \in files :
              /\ ArticleIdOfFilename(f.filename) = i
              /\ ArticleIdOfFilename(g.filename) = j
              /\ Serial(g.id) > Serial(f.id)
              /\ g.id \in okUploads

\* C12 (as claimed): when a page request of the scrape or a listing request of
\* check_existing_files fails, the process ends there as a failed job; it does not
\* go on to the next step with what it got.
C12_PreflightFailureAborts ==
    [][(pc \in {"scrape", "check"} /\ faults' = faults + 1)
          => (pc' = "none" /\ ~prev'.done)]_vars

\* C13 (as claimed): when the upload of an upload_article call has succeeded and the
\* add or the ledger write that follows it fails, the ledger holds for the article's
\* key what it held when the call started: no record if it had none, and otherwise a
\* record that is not of this run; in memory and in the tracking file.
C13_PartialFailureLeavesLedger ==
    [][\A i \in Ids :
          (pc = "upload" /\ item[i] \in {"add", "track", "open", "dump"}
                /\ i \in results'.failed)
              => \A L \in {file_tracking', DiskLedger'} :
                    IF PathOf(i) \in tracked0
                    THEN /\ PathOf(i) \in DOMAIN L
                         /\ L[PathOf(i)].uploaded_at # <<"run", runs>>
                    ELSE PathOf(i) \notin DOMAIN L]_vars

\* C19 (as claimed): an article planned updated and processed without failure is
\* tallied apart from 'uploaded', its ledger record carries the fingerprint of the new
\* content, and the only live vector store entry under its name is the one the record
\* names.
C19_ChangedIsUpdated ==
    DeltaReturned
        => \A i \in changes.updated \ results.failed :
              /\ i \notin results.uploaded
              /\ PathOf(i) \in DOMAIN file_tracking
              /\ file_tracking[PathOf(i)].hash = get_file_hash_from_content(scraped[i])
              /\ \A e \in EntriesOf(i) :
                    e.id = file_tracking[PathOf(i)].vector_store_file_id

\* C20 (as claimed): when identify_changes returns, a source id is planned new exactly
\* when the ledger has no record for it, unchanged exactly when the record's hash is
\* the fingerprint of the current content, and updated otherwise.
C20_PlanFromLedger ==
    pc = "check"
        => \A i \in DOMAIN scraped :
              LET tracked == LocalPath(i) \in DOMAIN file_tracking
                  same == file_tracking[LocalPath(i)].hash
                              = get_file_hash_from_content(scraped[i])
              IN /\ (i \in changes.new) <=> ~tracked
                 /\ (i \in changes.unchanged) <=> (tracked /\ same)
                 /\ (i \in changes.updated) <=> (tracked /\ ~same)

\* the two replace_file methods
ReplaceOps == {"file_replace", "vector_replace"}

\* some object with one of these ids is in the store a replace_file works on
Lives(name, ids) ==
    IF name = "file_replace"
    THEN \E f \in files : f.id \in ids
    ELSE \E e \in vstore : e.id \in ids

\* C14 (as claimed): a replace_file call on an old object that existed leaves the old
\* object in place until the new one is created, and when it has returned, with or
\* without a failure, the old or the new object exists.
C14_UploadBeforeDelete ==
    /\ (op.name \in ReplaceOps /\ op.had) => Lives(op.name, {op.old})
    /\ (ret.name \in ReplaceOps /\ ret.had) => Lives(ret.name, {ret.arg, ret.value})

\* C15 (as claimed): delete and remove_file return True when the remote answers that
\* the object does not exist.
C15_IdempotentDelete ==
    (ret.name \in {"delete", "remove_file"} /\ ret.response = "not_found")
        => ret.value = True

\* the values a call can return when every request of it succeeded
SuccessValues(name) ==
    CASE name = "file_list" -> SUBSET {FileIdOf(n) : n \in 0..MaxRemoteId}
      [] name = "vector_list" ->
            {s \in Seq({VectorIdOf(n) : n \in 0..MaxRemoteId}) :
                \A i \in DOMAIN s : \A j \in DOMAIN s : s[i] = s[j] => i = j}
      [] name = "file_replace" -> {FileIdOf(n) : n \in 0..MaxRemoteId}
      [] name = "vector_replace" -> {VectorIdOf(n) : n \in 0..MaxRemoteId}
      [] OTHER -> {True}

\* C16 (as claimed): what a list, delete, remove or replace call returns after one of
\* its requests failed is no value the call can return after success.
C16_FailuresDistinguishable ==
    (ret.name \in ReplaceOps \cup {"file_list", "vector_list", "delete", "remove_file"}
          /\ ret.failed)
        => ret.value \notin SuccessValues(ret.name)

\* C17 (as claimed): get_tracking_info and update_tracking on a FileTracker that was
\* constructed over a truncated file or over well-formed JSON that is not a mapping
\* do not raise, and neither does the construction.
C17_CorruptionDegradesToEmpty ==
    (ret.name \in {"FileTracker", "get_tracking_info", "update_tracking"}
          /\ ret.over \in {"corrupt", "array"})
        => ~ret.raised

\* C18 (as claimed): a process loading the tracking file while clear_tracking runs,
\* or after it died, over a file that held records, never reads a truncated file.
C18_ClearNeverTruncated ==
    (seen.during = "clear_tracking" /\ seen.before # EmptyDict) => seen.file = "ok"

\* C18 (amended): a process loading the tracking file while clear_tracking runs, or
\* after it died, gets from load_file_tracking the whole ledger the file held before
\* the call or the empty ledger.
C18_ClearLoadsWholeOrEmpty ==
    seen.during = "clear_tracking" => seen.ledger \in {seen.before, EmptyDict}

\* C18 witness: the second process loaded the file between the open that truncated it
\* and the dump, or after the clearing process died there, and got the empty ledger
\* where the file had held records
C18_Witness ==
    /\ seen.during = "clear_tracking"
    /\ seen.stage \in {"open", "dead"}
    /\ seen.file = "corrupt"
    /\ seen.before # EmptyDict
    /\ seen.ledger = EmptyDict

\* the files of the file store that carry article i's logical name
FilesOf(i) == {f \in files : ArticleIdOfFilename(f.filename) = i}

\* the ids with a local copy that the source no longer returns
Removed == {i \in DOMAIN local_articles : i \notin DOMAIN scraped}

\* C21: from identify_changes on, every id with a local copy that is absent from the
\* scraped set is listed under 'deleted', and no step of the run removes a file or a
\* vector store entry of it, changes its ledger record or its local file, or puts it
\* in 'uploaded', 'skipped' or 'failed'.
C21_DeletedDetectOnly ==
    [][(pc \in {"identify", "check", "upload"} /\ pc' # "none")
          => \A i \in Removed :
                LET k == local_articles[i].path IN
                /\ i \in changes'.deleted
                /\ i \notin results'.uploaded \cup results'.skipped \cup results'.failed
                /\ FilesOf(i)' = FilesOf(i)
                /\ EntriesOf(i)' = EntriesOf(i)
                /\ (k \in DOMAIN file_tracking') = (k \in DOMAIN file_tracking)
                /\ k \in DOMAIN file_tracking => file_tracking'[k] = file_tracking[k]
                /\ articlesDir'[k] = articlesDir[k]
                /\ item'[i] = "none"]_vars

\* a run that uploaded another article has returned from upload_delta with a removed
\* article that has a ledger record and a vector store entry
C21_Witness ==
    /\ DeltaReturned
    /\ results.uploaded # {}
    /\ \E i \in changes.deleted :
          /\ local_articles[i].path \in DOMAIN file_tracking
          /\ EntriesOf(i) # {}

\* C22 (as claimed): a scraped article with no local copy when get_local_articles ran
\* is left out of the run: no upload_article call is made for it and it is in neither
\* 'uploaded' nor 'failed'.
C22_MissingLocalExcluded ==
    pc \in {"upload", "log"}
        => \A i \in DOMAIN scraped :
              i \notin DOMAIN local_articles
                  => /\ item[i] = "none"
                     /\ i \notin results.uploaded \cup results.failed

\* C26: when upload_delta has returned, 'uploaded', 'skipped' and 'failed' are pairwise
\* disjoint and together hold exactly the scraped ids, so their sizes add up to the
\* number of scraped articles.
C26_TallyPartition ==
    DeltaReturned
        => /\ results.uploaded \cap results.skipped = {}
           /\ results.uploaded \cap results.failed = {}
           /\ results.skipped \cap results.failed = {}
           /\ results.uploaded \cup results.skipped \cup results.failed = DOMAIN scraped
           /\ Cardinality(results.uploaded) + Cardinality(results.skipped)
                  + Cardinality(results.failed) = Cardinality(DOMAIN scraped)

\* upload_delta has returned with a failed article and another one uploaded or
\* skipped, every article of the source scraped
C26_Witness ==
    /\ DeltaReturned
    /\ results.failed # {}
    /\ results.uploaded \cup results.skipped # {}
    /\ changes.deleted = {}
    /\ Cardinality(DOMAIN scraped) = Cardinality(Ids)

\* d maps k to the same value before and after the step, or to none both times
SameAt(d, e, k) ==
    /\ (k \in DOMAIN e) = (k \in DOMAIN d)
    /\ k \in DOMAIN d => e[k] = d[k]

\* C27: while upload_delta runs, no step uploads a file for, adds a vector store entry
\* for, writes a ledger record for or writes the local file of an article that is
\* classified unchanged or whose id is in the existence set check_existing_files built.
C27_OnlyChangedUploaded ==
    [][(pc = "upload" /\ pc' # "none")
          => \A i \in DOMAIN scraped :
                (i \in changes.unchanged \/ i \in existing)
                    => /\ item'[i] = "none"
                       /\ FilesOf(i)' = FilesOf(i)
                       /\ EntriesOf(i)' = EntriesOf(i)
                       /\ SameAt(file_tracking, file_tracking', LocalPath(i))
                       /\ SameAt(file_tracking, file_tracking', Resolve(LocalPath(i)))
                       /\ SameAt(articlesDir, articlesDir', Resolve(LocalPath(i)))]_vars

\* upload_delta has returned after upload_article was called for an article of the
\* existence set, which has no local file, and after another article was uploaded
C27_Witness ==
    /\ DeltaReturned
    /\ \E i \in existing \cap changes.new :
          /\ i \in results.uploaded
          /\ Resolve(LocalPath(i)) \notin DOMAIN articlesDir
    /\ results.uploaded \ existing # {}

\* C28: in every run the existence set changes only in the step in which
\* check_existing_files returns, the job changes the file store and the vector store
\* only after that step, and upload_article decides between its early return and an
\* upload by the set built then, whatever the stores hold by now.
C28_LookupBuiltOnce ==
    [][/\ (existing' # existing /\ pc' # "none") => (pc = "check" /\ pc' = "upload")
       /\ ((files' # files \/ vstore' # vstore) /\ pc # "none") => pc = "upload"
       /\ \A i \in Ids :
             (pc = "upload" /\ pc' = "upload" /\ item[i] = "none"
                  /\ (item'[i] # "none" \/ i \in results'.uploaded \ results.uploaded))
                 => ((i \in existing) <=> (item'[i] = "none"))]_vars

\* upload_delta has returned after two upload_article calls that passed the
\* existence check, with a vector store that no longer matches the existence set
C28_Witness ==
    /\ DeltaReturned
    /\ existing # VectorStoreNames
    /\ Cardinality(results.uploaded \ existing) = Cardinality(Ids)

\* C23 (as claimed): the ledger, in memory and in the tracking file, never holds two
\* records for the same article id, whatever directory string the job is configured
\* with.
C23_OneRecordPerId ==
    \A L \in {file_tracking, DiskLedger} :
        \A k1 \in DOMAIN L : \A k2 \in DOMAIN L :
            Stem(k1) = Stem(k2) => k1 = k2

\* C24: whenever no clear_tracking call is under way, a FileTracker constructed now
\* over the tracking file would hold, for every key, exactly the record the
\* FileTracker that made the update_tracking and clear_tracking calls holds, and
\* none where that one holds none.
C24_LedgerRoundTrip ==
    (toolTracker.over # "none" /\ op.name # "clear_tracking")
        => /\ LoadedType(disk) = toolTracker.type
           /\ DOMAIN load_file_tracking(disk) = DOMAIN file_tracking
           /\ \A k \in {LocalPath(i) : i \in Ids} :
                 SameAt(file_tracking, load_file_tracking(disk), k)

\* a FileTracker that found no tracking file has returned from its second
\* update_tracking call and holds a record for every article
C24_Witness ==
    /\ toolTracker.over = "missing"
    /\ ret.name = "update_tracking"
    /\ ~ret.raised
    /\ DOMAIN file_tracking = {LocalPath(i) : i \in Ids}

\* C25 (as claimed): for a local file holding what save_article_locally writes for the
\* fetched content of an article, get_file_hash of the file equals
\* get_file_hash_from_content of the content, and has_content_changed is false.
C25_FingerprintSourceIndependent ==
    \A i \in DOMAIN scraped :
        LET p == LocalPath(i) IN
        (/\ Resolve(p) \in DOMAIN articlesDir
         /\ articlesDir[Resolve(p)] = WriteText(scraped[i]))
            => /\ get_file_hash(p) = get_file_hash_from_content(scraped[i])
               /\ ~has_content_changed(scraped[i], get_local_articles[i])

\* C29: against a store that answers every page, a list_all_files call that has begun
\* returns; the list it returns holds the id of every entry of the vector store
\* exactly once; and the index create_file_index builds from it has exactly the
\* filenames of the files the entries point at, each mapped to one entry whose file
\* carries that name.
C29_ListingComplete ==
    /\ (op.name = "vector_list") ~> (ret.name = "vector_list")
    /\ [](ret.name = "vector_list"
            => /\ {ret.value[n] : n \in DOMAIN ret.value} = {e.id : e \in vstore}
               /\ Len(ret.value) = Cardinality(vstore))
    /\ [](ret.name = "create_file_index"
            => /\ DOMAIN ret.value
                    = {f.filename : f \in {g \in files : \E e \in vstore : e.file_id = g.id}}
               /\ \A name \in DOMAIN ret.value :
                     \E e \in vstore :
                        /\ e.id = ret.value[name].vector_store_file_id
                        /\ e.file_id = ret.value[name].openai_file_id
                        /\ get_by_id(e.file_id).filename = name)

\* create_file_index has returned for a store of more entries than two pages hold, two
\* of them pointing at files of the same name and one at a file that is gone
C29_Witness ==
    /\ ret.name = "create_file_index"
    /\ Cardinality(vstore) > 2 * PageLimit
    /\ \E e1 \in vstore : \E e2 \in vstore :
          /\ e1 # e2
          /\ \E f1 \in files : \E f2 \in files :
                f1.id = e1.file_id /\ f2.id = e2.file_id /\ f1.filename = f2.filename
    /\ \E e \in vstore : \A f \in files : f.id # e.file_id

\* C30: in every interleaving of the delete tasks, at most MaxWorkers tasks run at a
\* time; once every task is submitted each listed file with an id has exactly one
\* task and no task is for anything else; when the pool has exited, deleted_count
\* plus failed_count is the number of tasks submitted; and clear_tracking begins only
\* after the pool has exited with every task finished and counted.
C30_CleanupPool ==
    /\ pool.stage \in {"submit", "collect", "exited"}
          => Cardinality(Running) <= MaxWorkers
    /\ pool.stage \in {"collect", "exited"}
          => /\ \A id \in pool.listed \ {None} :
                   Cardinality({t \in pool.tasks : t.id = id}) = 1
             /\ \A t \in pool.tasks : t.id \in pool.listed \ {None}
    /\ pool.stage = "exited"
          => pool.deleted_count + pool.failed_count = Cardinality(pool.tasks)
    /\ (op.name = "clear_tracking" \/ ret.name = "clear_tracking" \/ disk \notin CleanupDisks)
          => /\ pool.stage = "exited"
             /\ \A t \in pool.tasks : t.state = "counted"

\* cleanup_all has cleared the ledger after a pool of more tasks than workers, with a
\* delete that succeeded, one that failed, and a listed object without an id
C30_Witness ==
    /\ ret.name = "clear_tracking"
    /\ pool.stage = "exited"
    /\ Cardinality(pool.tasks) > MaxWorkers
    /\ pool.deleted_count > 0
    /\ pool.failed_count > 0
    /\ None \in pool.listed

====
